---- MODULE Spec2Model ----
(***************************************************************************)
(* GPU telemetry subsystem of evanOS (src/src/core/gpu_monitor.cpp):       *)
(* the NVIDIA backend that binds the NVML library at run time, the AMD and *)
(* Intel placeholders, and the GPUMonitorManager that owns the backends.   *)
(*                                                                         *)
(* The operating system loader, the NVML library and the hardware are the  *)
(* environment: every load, symbol lookup and native call gets its outcome *)
(* from an input record chosen by the action that runs the operation.      *)
(***************************************************************************)
EXTENDS Integers, Sequences, FiniteSets, TLC

VARIABLES
    platform,   \* "win32" | "posix": which branch of the #ifdef was compiled
    nv,         \* one NVIDIA_GPUMonitor driven directly by a caller
    mgr,        \* one GPUMonitorManager object
    last,       \* the last operation: its inputs, return value and native calls
    stub,       \* one AMD_GPUMonitor and one Intel_GPUMonitor driven directly
    crashed,    \* the process called through a null function pointer
    log,        \* the Manager's completed initialize() and cleanup() calls
    globalConfig,   \* the Configuration object (system_monitor.cpp:604)
    threads     \* each thread's position inside a Configuration call

\* the variables of the Configuration object and of the threads using it
confvars == <<globalConfig, threads>>

vars == <<platform, nv, mgr, last, stub, crashed, log, globalConfig, threads>>

----------------------------------------------------------------------------
(* Bounds of the model *)

\* largest device count the count entry point reports
MaxDevices == 3
\* most library references one backend may hold open at once
MaxOpen == 2
\* most backends the Manager retains
MaxMonitors == 2
\* most initialize() and cleanup() calls followed through the log
MaxLog == 3

----------------------------------------------------------------------------
(* Constants of the program *)

\* nullptr: no library handle (constructor, line 79)
NULL == 0
\* the return code the code tests every native call against (line 154)
NVML_SUCCESS == 0
\* the return codes tried for a native call: success and one error code
ReturnCodes == { NVML_SUCCESS, 1 }
\* bytes per megabyte: 1024 * 1024 (line 297)
BytesPerMB == 1048576
\* milliwatts per watt (line 325)
MilliwattsPerWatt == 1000
\* value of a numeric GPUInfo field that was never assigned (line 262)
Indeterminate == -1
\* a 64-bit byte count is held as hi * 2^30 + lo with 0 <= lo < 2^30
U64Base == 1024 * BytesPerMB
\* 2^22: byte counts whose hi parts differ by this differ by 2^32 megabytes
U32WrapHi == 4 * BytesPerMB

\* the eleven entry points resolved by initialize() (lines 132-142)
EntryPoints ==
    { "nvmlInit", "nvmlShutdown", "nvmlDeviceGetCount",
      "nvmlDeviceGetHandleByIndex", "nvmlDeviceGetName",
      "nvmlDeviceGetMemoryInfo", "nvmlDeviceGetUtilizationRates",
      "nvmlDeviceGetTemperature", "nvmlDeviceGetPowerUsage",
      "nvmlDeviceGetClockInfo", "nvmlSystemGetDriverVersion" }

\* one native call in the trace of an operation
Call(f, arg) == [f |-> f, arg |-> arg, domain |-> 0]

----------------------------------------------------------------------------
(* NVIDIA backend: construction, initialize, cleanup *)

\* NVIDIA_GPUMonitor::NVIDIA_GPUMonitor.  fn is the set of entry points whose
\* pointer is non-null and fn_lib the library they were resolved from;
\* open_refs (library references opened and not yet released) and
\* nvml_sessions (successful nvmlInit calls not yet shut down) are what the
\* loader and the vendor library hold on behalf of this object.
NewNvidia ==
    [ vendor |-> "NVIDIA", nvml_lib |-> NULL, fn |-> {}, fn_lib |-> NULL,
      is_initialized |-> FALSE, device_count |-> 0,
      open_refs |-> 0, nvml_sessions |-> 0 ]

\* The candidate libraries in the order the build tries them: 1 is the
\* default name, 2 the absolute System32 path (Windows build only).
Candidates(plat) == IF plat = "win32" THEN <<1, 2>> ELSE <<1>>

\* LoadLibrary / dlopen of lines 102-116: the handle of the first candidate
\* that loads (the candidate's number), NULL when none does.
LoadLibrary(plat, loadable) ==
    IF 1 \in loadable THEN 1
    ELSE IF plat = "win32" /\ 2 \in loadable THEN 2
    ELSE NULL

\* the loader calls LoadLibrary makes
LoadCalls(plat, loadable) ==
    IF 1 \in loadable \/ plat # "win32"
    THEN << Call("load", 1) >>
    ELSE << Call("load", 1), Call("load", 2) >>

\* NvInitialize with is_initialized set as soon as nvmlInit has succeeded
NvInitializeFlagsEarly(b, plat, env) ==
    LET lib == LoadLibrary(plat, env.loadable)
        c0  == LoadCalls(plat, env.loadable)
        b1  == [b EXCEPT !.nvml_lib = lib,
                         !.open_refs = IF lib # NULL THEN @ + 1 ELSE @]
    IN
    IF lib = NULL THEN [b |-> b1, ret |-> FALSE, calls |-> c0]
    ELSE
    LET b2 == [b1 EXCEPT !.fn = env.resolved, !.fn_lib = lib] IN
    IF b2.fn # EntryPoints THEN [b |-> b2, ret |-> FALSE, calls |-> c0]
    ELSE
    LET c1 == Append(c0, Call("nvmlInit", 0)) IN
    IF env.initRc # NVML_SUCCESS THEN [b |-> b2, ret |-> FALSE, calls |-> c1]
    ELSE
    LET b3 == [b2 EXCEPT !.nvml_sessions = @ + 1, !.is_initialized = TRUE]
        c2 == Append(c1, Call("nvmlDeviceGetCount", 0))
    IN
    IF env.countRc # NVML_SUCCESS
    THEN [ b |-> [b3 EXCEPT !.nvml_sessions = @ - 1], ret |-> FALSE,
           calls |-> Append(c2, Call("nvmlShutdown", 0)) ]
    ELSE [ b |-> [b3 EXCEPT !.device_count = env.count],
           ret |-> TRUE, calls |-> c2 ]

\* NVIDIA_GPUMonitor::initialize.  env: loadable (candidates that load),
\* resolved (names the symbol lookup finds), initRc, countRc, count.
NvInitialize(b, plat, env) ==
    LET lib == LoadLibrary(plat, env.loadable)
        c0  == LoadCalls(plat, env.loadable)
        b1  == [b EXCEPT !.nvml_lib = lib,
                         !.open_refs = IF lib # NULL THEN @ + 1 ELSE @]
    IN
    IF lib = NULL THEN [b |-> b1, ret |-> FALSE, calls |-> c0]
    ELSE
    LET b2 == [b1 EXCEPT !.fn = env.resolved, !.fn_lib = lib] IN
    IF b2.fn # EntryPoints THEN [b |-> b2, ret |-> FALSE, calls |-> c0]
    ELSE
    LET c1 == Append(c0, Call("nvmlInit", 0)) IN
    IF env.initRc # NVML_SUCCESS THEN [b |-> b2, ret |-> FALSE, calls |-> c1]
    ELSE
    LET b3 == [b2 EXCEPT !.nvml_sessions = @ + 1]
        c2 == Append(c1, Call("nvmlDeviceGetCount", 0))
    IN
    IF env.countRc # NVML_SUCCESS
    THEN [ b |-> [b3 EXCEPT !.nvml_sessions = @ - 1], ret |-> FALSE,
           calls |-> Append(c2, Call("nvmlShutdown", 0)) ]
    ELSE [ b |-> [b3 EXCEPT !.device_count = env.count,
                            !.is_initialized = TRUE],
           ret |-> TRUE, calls |-> c2 ]

\* NvCleanup that shuts the vendor library down whenever the shutdown entry
\* point is bound, whatever the lifecycle flag says
NvCleanupAlwaysShutsDown(b) ==
    LET shut == "nvmlShutdown" \in b.fn
        b1 == IF shut THEN [b EXCEPT !.nvml_sessions = @ - 1] ELSE b
        c1 == IF shut THEN << Call("nvmlShutdown", 0) >> ELSE << >>
        b2 == IF b1.nvml_lib # NULL
              THEN [b1 EXCEPT !.open_refs = @ - 1, !.nvml_lib = NULL]
              ELSE b1
        c2 == IF b1.nvml_lib # NULL
              THEN Append(c1, Call("unload", b1.nvml_lib))
              ELSE c1
    IN [ b |-> [b2 EXCEPT !.is_initialized = FALSE, !.device_count = 0],
         ret |-> FALSE, calls |-> c2 ]

\* NvCleanup with nvml_lib left as it was after the release
NvCleanupKeepsHandle(b) ==
    LET shut == b.is_initialized /\ "nvmlShutdown" \in b.fn
        b1 == IF shut THEN [b EXCEPT !.nvml_sessions = @ - 1] ELSE b
        c1 == IF shut THEN << Call("nvmlShutdown", 0) >> ELSE << >>
        b2 == IF b1.nvml_lib # NULL
              THEN [b1 EXCEPT !.open_refs = @ - 1]
              ELSE b1
        c2 == IF b1.nvml_lib # NULL
              THEN Append(c1, Call("unload", b1.nvml_lib))
              ELSE c1
    IN [ b |-> [b2 EXCEPT !.is_initialized = FALSE, !.device_count = 0],
         ret |-> FALSE, calls |-> c2 ]

\* NVIDIA_GPUMonitor::cleanup
NvCleanup(b) ==
    LET shut == b.is_initialized /\ "nvmlShutdown" \in b.fn
        b1 == IF shut THEN [b EXCEPT !.nvml_sessions = @ - 1] ELSE b
        c1 == IF shut THEN << Call("nvmlShutdown", 0) >> ELSE << >>
        b2 == IF b1.nvml_lib # NULL
              THEN [b1 EXCEPT !.open_refs = @ - 1, !.nvml_lib = NULL]
              ELSE b1
        c2 == IF b1.nvml_lib # NULL
              THEN Append(c1, Call("unload", b1.nvml_lib))
              ELSE c1
    IN [ b |-> [b2 EXCEPT !.is_initialized = FALSE, !.device_count = 0],
         ret |-> FALSE, calls |-> c2 ]

----------------------------------------------------------------------------
(* Unit conversions and native readings *)

RECURSIVE GCD(_, _)
GCD(a, b) == IF b = 0 THEN a ELSE GCD(b, a % b)

\* A float is held as the rational <<num, den>> in lowest terms.
Rational(n, d) == LET g == GCD(n, d) IN << n \div g, d \div g >>

\* spacing of the binary32 values around the unsigned value u (24-bit mantissa)
RECURSIVE FloatUlp(_)
FloatUlp(u) == IF u < 16777216 THEN 1 ELSE 2 * FloatUlp(u \div 2)

\* static_cast<float>(unsigned int): round to nearest, ties to even
StaticCastFloat(u) ==
    LET ulp == FloatUlp(u)
        q   == u \div ulp
        r   == u % ulp
        up  == 2 * r > ulp \/ (2 * r = ulp /\ q % 2 = 1)
    IN IF up THEN (q + 1) * ulp ELSE q * ulp

\* static_cast<float>(u) as a float value (lines 311, 318, 333, 341)
FloatOf(u) == << StaticCastFloat(u), 1 >>

\* The binary32 division: long division of q + r/d carried on, one binary
\* digit a step, until the quotient is exact or has 24 significant bits,
\* then rounded to nearest, ties to even.  den is 2^(digits produced).
RECURSIVE FloatRound(_, _, _, _)
FloatRound(q, r, d, den) ==
    IF r = 0 THEN Rational(q, den)
    ELSE IF q >= 8388608
    THEN LET up == 2 * r > d \/ (2 * r = d /\ q % 2 = 1) IN
         Rational(IF up THEN q + 1 ELSE q, den)
    ELSE FloatRound(2 * q + (IF 2 * r >= d THEN 1 ELSE 0), (2 * r) % d,
                    d, 2 * den)

\* the binary32 value nearest to n / d, for 2^-7 <= n / d < 2^24 or n = 0
FloatQuotient(n, d) == FloatRound(n \div d, n % d, d, 1)

\* static_cast<float>(power_usage) / 1000.0f (line 325): the unsigned value
\* is converted to binary32 first, then divided in binary32
MilliwattsToWatts(p) == FloatQuotient(StaticCastFloat(p), MilliwattsPerWatt)

\* 0.0f
FloatZero == << 0, 1 >>

\* bytes / (1024 * 1024) on a 64-bit count: the quotient's bits above bit 31
\* (over) and its low 32 bits (low)
DivMB(u) ==
    [ over |-> u.hi \div U32WrapHi,
      low  |-> (u.hi % U32WrapHi) * (U64Base \div BytesPerMB)
               + (u.lo \div BytesPerMB) ]

\* static_cast<unsigned int>(bytes / (1024 * 1024)) (lines 297-299): the
\* 32-bit field keeps the low 32 bits of the quotient
BytesToMB(u) == DivMB(u).low

\* What the native library reports when a call succeeds: neighbouring
\* devices differ in every value, so a fetched value is told from a default
\* and one device from another.  The third reading has a byte count above
\* 2^52 and a power above 2^24 milliwatts.
Readings ==
    << [ driver |-> "535.104.05",
         total |-> [hi |-> 8, lo |-> 0],
         used  |-> [hi |-> 1, lo |-> 0],
         free  |-> [hi |-> 6, lo |-> 1073741823],
         gpu |-> 37, temp |-> 61, power |-> 125000,
         clock_core |-> 1410, clock_memory |-> 5001 ],
       [ driver |-> "470.57.02",
         total |-> [hi |-> 0, lo |-> 1073741823],
         used  |-> [hi |-> 0, lo |-> 1048575],
         free  |-> [hi |-> 0, lo |-> 1072693248],
         gpu |-> 99, temp |-> 30, power |-> 33333,
         clock_core |-> 210, clock_memory |-> 405 ],
       [ driver |-> "550.54.14",
         total |-> [hi |-> U32WrapHi + 8, lo |-> 0],
         used  |-> [hi |-> 2, lo |-> 524288],
         free  |-> [hi |-> U32WrapHi + 5, lo |-> 1073217536],
         gpu |-> 5, temp |-> 45, power |-> 134219000,
         clock_core |-> 1980, clock_memory |-> 9501 ] >>

\* the reading of device i: neighbouring devices differ
ReadingOf(i) == Readings[(i % Len(Readings)) + 1]

\* the name the library reports for the device with index i
NativeName(i) == << "GPU", i >>

----------------------------------------------------------------------------
(* NVIDIA backend: the per-device query and the sweep *)

\* GPUInfo gpu_info; (line 262): strings empty, numbers not initialised
FreshGPUInfo ==
    [ name |-> << >>, vendor |-> "", driver_version |-> "",
      memory_total |-> Indeterminate, memory_used |-> Indeterminate,
      memory_free |-> Indeterminate,
      utilization |-> << Indeterminate, 1 >>,
      temperature |-> << Indeterminate, 1 >>,
      power_usage |-> << Indeterminate, 1 >>,
      clock_core |-> << Indeterminate, 1 >>,
      clock_memory |-> << Indeterminate, 1 >> ]

\* the native calls of one loop iteration, in the order of lines 266-338
Steps ==
    << "Handle", "Name", "Driver", "Memory", "Util", "Temp", "Power",
       "ClockCore", "ClockMem" >>

\* the function pointer each step calls through
StepEntry(st) ==
    CASE st = "Handle"    -> "nvmlDeviceGetHandleByIndex"
      [] st = "Name"      -> "nvmlDeviceGetName"
      [] st = "Driver"    -> "nvmlSystemGetDriverVersion"
      [] st = "Memory"    -> "nvmlDeviceGetMemoryInfo"
      [] st = "Util"      -> "nvmlDeviceGetUtilizationRates"
      [] st = "Temp"      -> "nvmlDeviceGetTemperature"
      [] st = "Power"     -> "nvmlDeviceGetPowerUsage"
      [] st = "ClockCore" -> "nvmlDeviceGetClockInfo"
      [] st = "ClockMem"  -> "nvmlDeviceGetClockInfo"

\* the argument that tells the calls of one entry point apart: the clock
\* domain for the clock calls (lines 330, 338), the device index otherwise
StepCall(st, i) ==
    [ f |-> StepEntry(st), arg |-> i,
      domain |-> IF st = "ClockMem" THEN 1 ELSE 0 ]

\* AbortingSteps with the power fetch treated as a core field
AbortingStepsWithPower ==
    { "Handle", "Name", "Memory", "Util", "Temp", "Power" }

\* the steps whose failure ends the iteration with `continue`
AbortingSteps == { "Handle", "Name", "Memory", "Util", "Temp" }

\* the assignments made after a step's call returned 0
StepFetched(rec, st, i) ==
    LET r == ReadingOf(i) IN
    CASE st = "Handle"    -> rec
      [] st = "Name"      -> [rec EXCEPT !.name = NativeName(i),
                                         !.vendor = "NVIDIA"]
      [] st = "Driver"    -> [rec EXCEPT !.driver_version = r.driver]
      [] st = "Memory"    -> [rec EXCEPT !.memory_total = BytesToMB(r.total),
                                         !.memory_used = BytesToMB(r.used),
                                         !.memory_free = BytesToMB(r.free)]
      [] st = "Util"      -> [rec EXCEPT !.utilization = FloatOf(r.gpu)]
      [] st = "Temp"      -> [rec EXCEPT !.temperature = FloatOf(r.temp)]
      [] st = "Power"     -> [rec EXCEPT
                                 !.power_usage = MilliwattsToWatts(r.power)]
      [] st = "ClockCore" -> [rec EXCEPT !.clock_core = FloatOf(r.clock_core)]
      [] st = "ClockMem"  -> [rec EXCEPT
                                 !.clock_memory = FloatOf(r.clock_memory)]

\* StepDefaulted with the memory-clock branch copied from the core-clock
\* branch: a failed memory-clock fetch clears clock_core
StepDefaultedCopied(rec, st) ==
    CASE st = "Driver"    -> [rec EXCEPT !.driver_version = "Unknown"]
      [] st = "Power"     -> [rec EXCEPT !.power_usage = << 0, 1 >>]
      [] st = "ClockCore" -> [rec EXCEPT !.clock_core = << 0, 1 >>]
      [] st = "ClockMem"  -> [rec EXCEPT !.clock_core = << 0, 1 >>]
      [] OTHER            -> rec

\* the assignments made after a non-aborting step's call returned non-zero
StepDefaulted(rec, st) ==
    CASE st = "Driver"    -> [rec EXCEPT !.driver_version = "Unknown"]
      [] st = "Power"     -> [rec EXCEPT !.power_usage = FloatZero]
      [] st = "ClockCore" -> [rec EXCEPT !.clock_core = FloatZero]
      [] st = "ClockMem"  -> [rec EXCEPT !.clock_memory = FloatZero]
      [] OTHER            -> rec

\* One loop iteration from step k on.  w.faults holds the <<device, step>>
\* pairs whose native call returns non-zero.  status: "emit" (push_back
\* reached), "skip" (continue) or "fault" (call through a null pointer).
RECURSIVE RunSteps(_, _, _, _, _, _)
RunSteps(b, i, w, k, rec, calls) ==
    IF k > Len(Steps) THEN [status |-> "emit", rec |-> rec, calls |-> calls]
    ELSE
    LET st == Steps[k] IN
    IF StepEntry(st) \notin b.fn
    THEN [status |-> "fault", rec |-> rec, calls |-> calls]
    ELSE
    LET c1 == Append(calls, StepCall(st, i)) IN
    IF << i, st >> \in w.faults
    THEN IF st \in AbortingSteps
         THEN [status |-> "skip", rec |-> rec, calls |-> c1]
         ELSE RunSteps(b, i, w, k + 1, StepDefaulted(rec, st), c1)
    ELSE RunSteps(b, i, w, k + 1, StepFetched(rec, st, i), c1)

\* the body of the for loop for index i (lines 262-344)
QueryDevice(b, i, w) == RunSteps(b, i, w, 1, FreshGPUInfo, << >>)

\* Sweep that queries a device a second time when a core fetch failed
RECURSIVE SweepRetries(_, _, _, _, _)
SweepRetries(b, i, w, list, calls) ==
    IF i >= b.device_count
    THEN [ret |-> list # << >>, list |-> list, calls |-> calls,
          fault |-> FALSE]
    ELSE
    LET d == QueryDevice(b, i, w) IN
    IF d.status = "fault"
    THEN [ret |-> FALSE, list |-> list, calls |-> calls \o d.calls,
          fault |-> TRUE]
    ELSE IF d.status = "skip"
    THEN SweepRetries(b, i + 1, w, list, calls \o d.calls \o d.calls)
    ELSE SweepRetries(b, i + 1, w, Append(list, d.rec), calls \o d.calls)

\* Sweep with `break` in place of `continue`: the first device whose query
\* fails ends the sweep
RECURSIVE SweepBreak(_, _, _, _, _)
SweepBreak(b, i, w, list, calls) ==
    IF i >= b.device_count
    THEN [ret |-> list # << >>, list |-> list, calls |-> calls,
          fault |-> FALSE]
    ELSE
    LET d == RunSteps(b, i, w, 1, FreshGPUInfo, << >>) IN
    IF d.status = "fault"
    THEN [ret |-> FALSE, list |-> list, calls |-> calls \o d.calls,
          fault |-> TRUE]
    ELSE IF d.status = "skip"
    THEN [ret |-> list # << >>, list |-> list, calls |-> calls \o d.calls,
          fault |-> FALSE]
    ELSE SweepBreak(b, i + 1, w, Append(list, d.rec), calls \o d.calls)

\* the for loop of getAllGPUInfo from index i on (lines 261-347)
RECURSIVE Sweep(_, _, _, _, _)
Sweep(b, i, w, list, calls) ==
    IF i >= b.device_count
    THEN [ret |-> list # << >>, list |-> list, calls |-> calls,
          fault |-> FALSE]
    ELSE
    LET d == QueryDevice(b, i, w) IN
    IF d.status = "fault"
    THEN [ret |-> FALSE, list |-> list, calls |-> calls \o d.calls,
          fault |-> TRUE]
    ELSE Sweep(b, i + 1, w,
               IF d.status = "emit" THEN Append(list, d.rec) ELSE list,
               calls \o d.calls)

\* NvGetGPUInfo that asks for the last device instead of the first
NvGetGPUInfoLastDevice(b, info, w) ==
    IF ~b.is_initialized \/ b.device_count = 0
    THEN [ret |-> FALSE, info |-> info, calls |-> << >>, fault |-> FALSE]
    ELSE LET d == RunSteps(b, b.device_count - 1, w, 1, info, << >>) IN
         [ ret |-> d.status = "emit", info |-> d.rec, calls |-> d.calls,
           fault |-> d.status = "fault" ]

\* NvGetGPUInfo without the test of device_count
NvGetGPUInfoIgnoresCount(b, info, w) ==
    IF ~b.is_initialized
    THEN [ret |-> FALSE, info |-> info, calls |-> << >>, fault |-> FALSE]
    ELSE LET d == RunSteps(b, 0, w, 1, info, << >>) IN
         [ ret |-> d.status = "emit", info |-> d.rec, calls |-> d.calls,
           fault |-> d.status = "fault" ]

\* NVIDIA_GPUMonitor::getGPUInfo: the same calls as one loop iteration of
\* getAllGPUInfo for index 0, writing into the caller's gpu_info as it goes;
\* a failing core call returns false and leaves what was written so far
NvGetGPUInfo(b, info, w) ==
    IF ~b.is_initialized \/ b.device_count = 0
    THEN [ret |-> FALSE, info |-> info, calls |-> << >>, fault |-> FALSE]
    ELSE LET d == RunSteps(b, 0, w, 1, info, << >>) IN
         [ ret |-> d.status = "emit", info |-> d.rec, calls |-> d.calls,
           fault |-> d.status = "fault" ]

\* NvGetAllGPUInfo with the loop started at index 1
NvGetAllGPUInfoFromOne(b, list, w) ==
    IF ~b.is_initialized \/ b.device_count = 0
    THEN [ret |-> FALSE, list |-> list, calls |-> << >>, fault |-> FALSE]
    ELSE Sweep(b, 1, w, list, << >>)

\* NVIDIA_GPUMonitor::getAllGPUInfo
NvGetAllGPUInfo(b, list, w) ==
    IF ~b.is_initialized \/ b.device_count = 0
    THEN [ret |-> FALSE, list |-> list, calls |-> << >>, fault |-> FALSE]
    ELSE Sweep(b, 0, w, list, << >>)

----------------------------------------------------------------------------
(* AMD and Intel backends *)

\* AMD_GPUMonitor::AMD_GPUMonitor
NewAmd == [ vendor |-> "AMD", is_initialized |-> FALSE ]

\* AmdInitialize reporting success
AmdInitializeSucceeds(b) ==
    [ b |-> [b EXCEPT !.is_initialized = TRUE], ret |-> TRUE,
      calls |-> << >> ]

\* AMD_GPUMonitor::initialize
AmdInitialize(b) == [ b |-> b, ret |-> FALSE, calls |-> << >> ]

\* AMD_GPUMonitor::getGPUInfo
AmdGetGPUInfo(b, info) ==
    [ ret |-> FALSE, info |-> info, calls |-> << >>, fault |-> FALSE ]

\* AMD_GPUMonitor::getAllGPUInfo
AmdGetAllGPUInfo(b, list) ==
    [ ret |-> FALSE, list |-> list, calls |-> << >>, fault |-> FALSE ]

\* AMD_GPUMonitor::cleanup
AmdCleanup(b) ==
    [ b |-> [b EXCEPT !.is_initialized = FALSE], ret |-> FALSE,
      calls |-> << >> ]

\* Intel_GPUMonitor::Intel_GPUMonitor
NewIntel == [ vendor |-> "Intel", is_initialized |-> FALSE ]

\* Intel_GPUMonitor::initialize
IntelInitialize(b) == [ b |-> b, ret |-> FALSE, calls |-> << >> ]

\* Intel_GPUMonitor::getGPUInfo
IntelGetGPUInfo(b, info) ==
    [ ret |-> FALSE, info |-> info, calls |-> << >>, fault |-> FALSE ]

\* Intel_GPUMonitor::getAllGPUInfo
IntelGetAllGPUInfo(b, list) ==
    [ ret |-> FALSE, list |-> list, calls |-> << >>, fault |-> FALSE ]

\* Intel_GPUMonitor::cleanup
IntelCleanup(b) ==
    [ b |-> [b EXCEPT !.is_initialized = FALSE], ret |-> FALSE,
      calls |-> << >> ]

----------------------------------------------------------------------------
(* IGPUMonitor: the virtual calls the Manager makes *)

\* monitor->initialize()
MonInitialize(b, plat, env) ==
    CASE b.vendor = "NVIDIA" -> NvInitialize(b, plat, env)
      [] b.vendor = "AMD"    -> AmdInitialize(b)
      [] b.vendor = "Intel"  -> IntelInitialize(b)

\* monitor->getGPUInfo(info)
MonGetGPUInfo(b, info, w) ==
    CASE b.vendor = "NVIDIA" -> NvGetGPUInfo(b, info, w)
      [] b.vendor = "AMD"    -> AmdGetGPUInfo(b, info)
      [] b.vendor = "Intel"  -> IntelGetGPUInfo(b, info)

\* monitor->getAllGPUInfo(list)
MonGetAllGPUInfo(b, list, w) ==
    CASE b.vendor = "NVIDIA" -> NvGetAllGPUInfo(b, list, w)
      [] b.vendor = "AMD"    -> AmdGetAllGPUInfo(b, list)
      [] b.vendor = "Intel"  -> IntelGetAllGPUInfo(b, list)

\* monitor->cleanup()
MonCleanup(b) ==
    CASE b.vendor = "NVIDIA" -> NvCleanup(b)
      [] b.vendor = "AMD"    -> AmdCleanup(b)
      [] b.vendor = "Intel"  -> IntelCleanup(b)

\* a destructor that does not run cleanup()
MonDestroyNoCleanup(b) == [ b |-> b, ret |-> FALSE, calls |-> << >> ]

\* the destructors (lines 96-98, 372-374, 398-400): each runs cleanup()
MonDestroy(b) == MonCleanup(b)

\* library references an object still holds
OpenRefs(b) == IF b.vendor = "NVIDIA" THEN b.open_refs ELSE 0

----------------------------------------------------------------------------
(* GPUMonitorManager *)

\* GPUMonitorManager::GPUMonitorManager.  leaked counts the library
\* references still open in objects the Manager has deleted.
NewManager ==
    [ gpu_monitors |-> << >>, is_initialized |-> FALSE, leaked |-> 0 ]

\* InitializeOne that pushes the object back whatever initialize() returned
InitializeOneAlways(st, b, plat, env) ==
    LET r == MonInitialize(b, plat, env) IN
    [ m |-> [st.m EXCEPT !.gpu_monitors = Append(@, r.b)],
      calls |-> st.calls \o r.calls,
      made |-> Append(st.made,
                      [ vendor |-> b.vendor, ret |-> r.ret,
                        retained |-> TRUE, b |-> r.b ]) ]

\* One block of GPUMonitorManager::initialize (lines 24-29, 31-36, 38-43):
\* initialize the new object b, push it back or delete it.  st carries the
\* Manager, the native calls so far and one entry per object made.
InitializeOne(st, b, plat, env) ==
    LET r == MonInitialize(b, plat, env)
        d == MonDestroy(r.b)
    IN
    IF r.ret
    THEN [ m |-> [st.m EXCEPT !.gpu_monitors = Append(@, r.b)],
           calls |-> st.calls \o r.calls,
           made |-> Append(st.made,
                           [ vendor |-> b.vendor, ret |-> TRUE,
                             retained |-> TRUE, b |-> r.b ]) ]
    ELSE [ m |-> [st.m EXCEPT !.leaked = @ + OpenRefs(d.b)],
           calls |-> st.calls \o r.calls \o d.calls,
           made |-> Append(st.made,
                           [ vendor |-> b.vendor, ret |-> FALSE,
                             retained |-> FALSE, b |-> d.b ]) ]

\* MgrInitialize whose flag tells whether this call retained a backend
MgrInitializeFlagsThisCall(m, plat, env) ==
    LET s0 == [ m |-> m, calls |-> << >>, made |-> << >> ]
        s1 == InitializeOne(s0, NewNvidia, plat, env)
        s2 == InitializeOne(s1, NewAmd, plat, env)
        s3 == InitializeOne(s2, NewIntel, plat, env)
        m4 == [s3.m EXCEPT !.is_initialized =
                  (Len(s3.m.gpu_monitors) > Len(m.gpu_monitors))]
    IN [ m |-> m4, ret |-> m4.is_initialized, calls |-> s3.calls,
         made |-> s3.made ]

\* GPUMonitorManager::initialize
MgrInitialize(m, plat, env) ==
    LET s0 == [ m |-> m, calls |-> << >>, made |-> << >> ]
        s1 == InitializeOne(s0, NewNvidia, plat, env)
        s2 == InitializeOne(s1, NewAmd, plat, env)
        s3 == InitializeOne(s2, NewIntel, plat, env)
        m4 == [s3.m EXCEPT !.is_initialized = (s3.m.gpu_monitors # << >>)]
    IN [ m |-> m4, ret |-> m4.is_initialized, calls |-> s3.calls,
         made |-> s3.made ]

\* MgrSweep that returns as soon as one monitor's getAllGPUInfo returns false
RECURSIVE MgrSweepStopsAtFailure(_, _, _, _, _, _)
MgrSweepStopsAtFailure(m, k, ws, list, calls, parts) ==
    IF k > Len(m.gpu_monitors)
    THEN [ ret |-> list # << >>, list |-> list, calls |-> calls,
           fault |-> FALSE, parts |-> parts ]
    ELSE
    LET t == MonGetAllGPUInfo(m.gpu_monitors[k], << >>, ws[k])
        p == Append(parts, [ ret |-> t.ret, list |-> t.list ])
    IN
    IF t.fault
    THEN [ ret |-> FALSE, list |-> list, calls |-> calls \o t.calls,
           fault |-> TRUE, parts |-> p ]
    ELSE IF ~t.ret
    THEN [ ret |-> FALSE, list |-> list, calls |-> calls \o t.calls,
           fault |-> FALSE, parts |-> p ]
    ELSE MgrSweepStopsAtFailure(m, k + 1, ws, list \o t.list,
                                calls \o t.calls, p)

\* MgrSweep with each monitor's records inserted at the front of the list
RECURSIVE MgrSweepFront(_, _, _, _, _, _)
MgrSweepFront(m, k, ws, list, calls, parts) ==
    IF k > Len(m.gpu_monitors)
    THEN [ ret |-> list # << >>, list |-> list, calls |-> calls,
           fault |-> FALSE, parts |-> parts ]
    ELSE
    LET t == MonGetAllGPUInfo(m.gpu_monitors[k], << >>, ws[k])
        p == Append(parts, [ ret |-> t.ret, list |-> t.list ])
    IN
    IF t.fault
    THEN [ ret |-> FALSE, list |-> list, calls |-> calls \o t.calls,
           fault |-> TRUE, parts |-> p ]
    ELSE MgrSweepFront(m, k + 1, ws,
                       IF t.ret THEN t.list \o list ELSE list,
                       calls \o t.calls, p)

\* the loop of GPUMonitorManager::getAllGPUInfo from monitor k on (lines
\* 58-65); ws[k] is the input of monitor k's sweep and parts collects what
\* each monitor returned
RECURSIVE MgrSweep(_, _, _, _, _, _)
MgrSweep(m, k, ws, list, calls, parts) ==
    IF k > Len(m.gpu_monitors)
    THEN [ ret |-> list # << >>, list |-> list, calls |-> calls,
           fault |-> FALSE, parts |-> parts ]
    ELSE
    LET t == MonGetAllGPUInfo(m.gpu_monitors[k], << >>, ws[k])
        p == Append(parts, [ ret |-> t.ret, list |-> t.list ])
    IN
    IF t.fault
    THEN [ ret |-> FALSE, list |-> list, calls |-> calls \o t.calls,
           fault |-> TRUE, parts |-> p ]
    ELSE MgrSweep(m, k + 1, ws,
                  IF t.ret THEN list \o t.list ELSE list,
                  calls \o t.calls, p)

\* MgrGetAllGPUInfo without the test of is_initialized
MgrGetAllGPUInfoUnguarded(m, list, ws) ==
    MgrSweep(m, 1, ws, list, << >>, << >>)

\* GPUMonitorManager::getAllGPUInfo
MgrGetAllGPUInfo(m, list, ws) ==
    IF ~m.is_initialized
    THEN [ ret |-> FALSE, list |-> list, calls |-> << >>, fault |-> FALSE,
           parts |-> << >> ]
    ELSE MgrSweep(m, 1, ws, list, << >>, << >>)

\* the loop of GPUMonitorManager::cleanup from monitor k on (lines 69-72):
\* cleanup(), then delete, whose destructor runs cleanup() again
RECURSIVE MgrCleanupFrom(_, _, _)
MgrCleanupFrom(m, k, calls) ==
    IF k > Len(m.gpu_monitors) THEN [ m |-> m, calls |-> calls ]
    ELSE
    LET c == MonCleanup(m.gpu_monitors[k])
        d == MonDestroy(c.b)
    IN MgrCleanupFrom([m EXCEPT !.leaked = @ + OpenRefs(d.b)], k + 1,
                      calls \o c.calls \o d.calls)

\* MgrCleanup without gpu_monitors.clear()
MgrCleanupKeepsSet(m) ==
    LET r == MgrCleanupFrom(m, 1, << >>) IN
    [ m |-> [r.m EXCEPT
                !.gpu_monitors =
                    [ k \in 1..Len(@) |-> MonCleanup(@[k]).b ],
                !.is_initialized = FALSE],
      ret |-> FALSE, calls |-> r.calls ]

\* GPUMonitorManager::cleanup
MgrCleanup(m) ==
    LET r == MgrCleanupFrom(m, 1, << >>) IN
    [ m |-> [r.m EXCEPT !.gpu_monitors = << >>, !.is_initialized = FALSE],
      ret |-> FALSE, calls |-> r.calls ]

----------------------------------------------------------------------------
(* Configuration (src/src/core/configuration.cpp) *)

\* Configuration::DIV (line 10)
DIV == 1024

\* Configuration::BTYPE_NAME (line 9): 0, 'K', 'M', 'G', 'T' as character codes
BTYPE_NAME == << 0, 75, 77, 71, 84 >>

\* the unit types config_byte_unit_set is documented for: 0 = automatic,
\* 1 = KB, 2 = MB, 3 = GB (configuration.h, line 33)
ByteTypes == 0 .. 3

\* the byte counts handed to config_byte_to_str
ByteCounts == { 0, 1536, 3 * DIV * DIV }

\* the threads that call into the one Configuration object
Threads == { "main", "worker" }

\* the two members of divByte, each read and written by a separate access
Members == { "first", "second" }

\* Configuration::Configuration(): divByte = (0, 1).  written is the set of
\* pairs some assignment to divByte has been started with, the constructor's
\* included.
NewConfiguration == [ first |-> 0, second |-> 1, written |-> { << 0, 1 >> } ]

\* the loop of lines 35-40: 1024^type
RECURSIVE Divisor(_)
Divisor(type) == IF type = 0 THEN 1 ELSE DIV * Divisor(type - 1)

\* the pair config_byte_unit_set(type) assigns (lines 34-42)
UnitPair(type) == << BTYPE_NAME[type + 1], Divisor(type) >>

\* the unit names of autoConvertBytes (line 87)
Units == << "B", "KB", "MB", "GB", "TB", "PB" >>

\* the loop of lines 92-95: divide by 1024 while a larger unit exists
RECURSIVE AutoScale(_, _)
AutoScale(size, unitIndex) ==
    IF size >= DIV /\ unitIndex < Len(Units) - 1
    THEN AutoScale(size \div DIV, unitIndex + 1)
    ELSE [ size |-> size, unitIndex |-> unitIndex ]

\* Configuration::autoConvertBytes; a string is the sequence of its parts
autoConvertBytes(byte) ==
    LET a == AutoScale(byte, 0) IN
    IF a.size >= DIV /\ a.unitIndex < Len(Units) - 1
    THEN << a.size \div DIV, ".", ((a.size % DIV) * 10) \div DIV, " ",
            Units[a.unitIndex + 2] >>
    ELSE << a.size, " ", Units[a.unitIndex + 1] >>

\* lines 61-70 of config_byte_to_str, applied to its copy of divByte
ByteToStr(currentDivByte, byte) ==
    IF currentDivByte[2] = 0 \/ currentDivByte[2] = 1
    THEN autoConvertBytes(byte)
    ELSE << byte \div currentDivByte[2], currentDivByte[1] >>

\* A thread outside any Configuration call.  Inside a call, todo holds the
\* members of divByte the call has still to store or load, and first and
\* second are the call's own copy of the pair.
IdleThread ==
    [ op |-> "none", todo |-> {}, first |-> 0, second |-> 0, byte |-> 0,
      ret |-> << >> ]

\* the calls that assign divByte, and those that copy it
Writers == { "config_byte_unit_set", "config_reset" }
Readers == { "config_byte_unit_get", "config_byte_to_str" }

\* what a call whose last access is done returns to its thread
Returned(th) ==
    IF th.todo # {} THEN th
    ELSE IF th.op = "config_byte_unit_get"
    THEN [th EXCEPT !.ret = << th.first, th.second >>]
    ELSE IF th.op = "config_byte_to_str"
    THEN [th EXCEPT !.ret = ByteToStr(<< th.first, th.second >>, th.byte)]
    ELSE IdleThread

----------------------------------------------------------------------------

(* Inputs: what the loader, the library and the hardware may answer *)

\* the sets of names one symbol lookup pass may find: all eleven, none, or
\* all but one
ResolveOutcomes ==
    { EntryPoints, {} } \cup { EntryPoints \ {e} : e \in EntryPoints }

\* An input of initialize() in which every answer that initialize() never
\* asks for (the lookups after a failed load, the count after a failed
\* nvmlInit, ...) has its default value.
CanonicalEnv(plat, e) ==
    LET loads   == LoadLibrary(plat, e.loadable) # NULL
        binds   == loads /\ e.resolved = EntryPoints
        inits   == binds /\ e.initRc = NVML_SUCCESS
        counts  == inits /\ e.countRc = NVML_SUCCESS
    IN /\ (~loads => e.resolved = {})
       /\ (~binds => e.initRc = NVML_SUCCESS)
       /\ (~inits => e.countRc = NVML_SUCCESS)
       /\ (~counts => e.count = 0)

\* the inputs of one initialize()
InitEnvs(plat) ==
    { e \in [ loadable : SUBSET { Candidates(plat)[k] :
                                    k \in 1..Len(Candidates(plat)) },
              resolved : ResolveOutcomes,
              initRc   : ReturnCodes,
              countRc  : ReturnCodes,
              count    : 0..MaxDevices ] : CanonicalEnv(plat, e) }

\* the steps whose failure only puts a default into the record
DefaultingSteps == { "Driver", "Power", "ClockCore", "ClockMem" }

\* the native calls of a sweep over n devices
FaultPoints(n) == (0..(n - 1)) \X { Steps[k] : k \in 1..Len(Steps) }

\* The sets of failing calls tried in a sweep over n devices: none; any one
\* call; one aborting call failing on any set of devices; any set of
\* defaulting calls of one device; one defaulting and one aborting call of
\* one device.
FaultSets(n) ==
    LET Devs == 0..(n - 1) IN
    { {} }
    \cup { {p} : p \in FaultPoints(n) }
    \cup { D \X {c} : D \in SUBSET Devs, c \in AbortingSteps }
    \cup { {i} \X S : i \in Devs, S \in SUBSET DefaultingSteps }
    \cup { { <<i, s>>, <<i, c>> } :
               i \in Devs, s \in DefaultingSteps, c \in AbortingSteps }

\* the inputs of one sweep over n devices
Worlds(n) == [ faults : FaultSets(n) ]

NoWorld == [ faults |-> {} ]

NoEnv ==
    [ loadable |-> {}, resolved |-> {}, initRc |-> NVML_SUCCESS,
      countRc |-> NVML_SUCCESS, count |-> 0 ]

\* a backend whose initialize() succeeded with n devices
ReadyNvidia(n) ==
    NvInitialize(NewNvidia, "posix",
                 [NoEnv EXCEPT !.loadable = {1}, !.resolved = EntryPoints,
                               !.count = n]).b

\* a record produced by an earlier query, still in the caller's list
PriorRecord == QueryDevice(ReadyNvidia(1), 0, NoWorld).rec

\* the lists a caller passes to a query: empty, or holding an earlier result
CallerLists == { << >>, << PriorRecord >> }

\* the GPUInfo objects a caller passes to getGPUInfo: new, or an earlier result
CallerInfos == { FreshGPUInfo, PriorRecord }

\* the vendors whose backend is a placeholder
PlaceholderVendors == { "AMD", "Intel" }

----------------------------------------------------------------------------
(* The directly driven NVIDIA backend *)

\* the fields of an operation's result, absent ones at their default
NoResult ==
    [ list |-> << >>, ret |-> FALSE, fault |-> FALSE, calls |-> << >>,
      made |-> << >>, parts |-> << >> ]

Fill(r) ==
    [ f \in DOMAIN NoResult |-> IF f \in DOMAIN r THEN r[f] ELSE NoResult[f] ]

\* what `last` holds about an operation: the object before and after, the
\* inputs (env, w, the caller's list) and the result
Record(op, pre, env, w, in, r, post) ==
    LET x == Fill(r) IN
    [ op |-> op, pre |-> pre, post |-> post, env |-> env, w |-> w,
      in |-> in, out |-> x.list, ret |-> x.ret, fault |-> x.fault,
      calls |-> x.calls, made |-> x.made, parts |-> x.parts ]

Idle == Record("idle", NewNvidia, NoEnv, NoWorld, << >>, NoResult, NewNvidia)

Init ==
    /\ platform \in { "win32", "posix" }
    /\ nv = NewNvidia
    /\ mgr = NewManager
    /\ last = Idle
    /\ stub = [ v \in PlaceholderVendors |->
                   IF v = "AMD" THEN NewAmd ELSE NewIntel ]
    /\ crashed = FALSE
    /\ log = << >>
    /\ globalConfig = NewConfiguration
    /\ threads = [ t \in Threads |-> IdleThread ]

\* The caller takes the result of the last operation.  `last` only records
\* what an operation did; nothing of the program changes here, and every
\* operation starts from a taken result, so any sequence of operations runs.
TakeResult ==
    /\ ~crashed
    /\ last.op # "idle"
    /\ last' = Idle
    /\ UNCHANGED << confvars, platform, stub, nv, mgr, crashed, log >>

\* a caller runs nv.initialize()
NvInit ==
    /\ ~crashed
    /\ last.op = "idle"
    /\ nv.open_refs < MaxOpen
    /\ \E env \in InitEnvs(platform) :
         LET r == NvInitialize(nv, platform, env) IN
         /\ nv' = r.b
         /\ last' = Record("NvInit", nv, env, NoWorld, << >>, r, r.b)
    /\ UNCHANGED << confvars, platform, stub, mgr, crashed, log >>

\* a caller runs nv.cleanup()
NvClean ==
    /\ ~crashed
    /\ last.op = "idle"
    /\ LET r == NvCleanup(nv) IN
         /\ nv' = r.b
         /\ last' = Record("NvClean", nv, NoEnv, NoWorld, << >>, r, r.b)
    /\ UNCHANGED << confvars, platform, stub, mgr, crashed, log >>

\* a caller runs nv.getAllGPUInfo(list)
NvGetAll ==
    /\ ~crashed
    /\ last.op = "idle"
    /\ \E in \in CallerLists, w \in Worlds(nv.device_count) :
         LET r == NvGetAllGPUInfo(nv, in, w) IN
         /\ last' = Record("NvGetAll", nv, NoEnv, w, in, r, nv)
         /\ crashed' = r.fault
    /\ UNCHANGED << confvars, platform, stub, nv, mgr, log >>

\* the result of getGPUInfo in the form of a list query's: the caller's
\* gpu_info as the only element
AsList(r) ==
    [ ret |-> r.ret, list |-> << r.info >>, calls |-> r.calls,
      fault |-> r.fault ]

\* a caller runs nv.getGPUInfo(info)
NvGetOne ==
    /\ ~crashed
    /\ last.op = "idle"
    /\ \E info \in CallerInfos,
          w \in Worlds(IF nv.device_count = 0 THEN 0 ELSE 1) :
         LET r == NvGetGPUInfo(nv, info, w) IN
         /\ last' = Record("NvGetOne", nv, NoEnv, w, << info >>, AsList(r), nv)
         /\ crashed' = r.fault
    /\ UNCHANGED << confvars, platform, stub, nv, mgr, log >>

\* a caller runs initialize() on a placeholder backend
StubInit ==
    /\ ~crashed
    /\ last.op = "idle"
    /\ \E v \in PlaceholderVendors :
         LET r == MonInitialize(stub[v], platform, NoEnv) IN
         /\ stub' = [stub EXCEPT ![v] = r.b]
         /\ last' = Record("StubInit", stub[v], NoEnv, NoWorld, << >>, r, r.b)
    /\ UNCHANGED << confvars, platform, nv, mgr, crashed, log >>

\* a caller runs getGPUInfo(info) on a placeholder backend
StubGetOne ==
    /\ ~crashed
    /\ last.op = "idle"
    /\ \E v \in PlaceholderVendors, info \in CallerInfos :
         LET r == MonGetGPUInfo(stub[v], info, NoWorld) IN
         last' = Record("StubGetOne", stub[v], NoEnv, NoWorld, << info >>,
                        AsList(r), stub[v])
    /\ UNCHANGED << confvars, platform, stub, nv, mgr, crashed, log >>

\* a caller runs getAllGPUInfo(list) on a placeholder backend
StubGetAll ==
    /\ ~crashed
    /\ last.op = "idle"
    /\ \E v \in PlaceholderVendors, in \in CallerLists :
         LET r == MonGetAllGPUInfo(stub[v], in, NoWorld) IN
         last' = Record("StubGetAll", stub[v], NoEnv, NoWorld, in, r, stub[v])
    /\ UNCHANGED << confvars, platform, stub, nv, mgr, crashed, log >>

\* a caller runs cleanup() on a placeholder backend
StubClean ==
    /\ ~crashed
    /\ last.op = "idle"
    /\ \E v \in PlaceholderVendors :
         LET r == MonCleanup(stub[v]) IN
         /\ stub' = [stub EXCEPT ![v] = r.b]
         /\ last' = Record("StubClean", stub[v], NoEnv, NoWorld, << >>, r, r.b)
    /\ UNCHANGED << confvars, platform, nv, mgr, crashed, log >>

NextNv ==
    \/ NvInit \/ NvClean \/ NvGetAll \/ NvGetOne
    \/ StubInit \/ StubGetOne \/ StubGetAll \/ StubClean
    \/ TakeResult

\* a caller driving one NVIDIA backend through its interface
SpecNv == Init /\ [][NextNv]_vars

----------------------------------------------------------------------------
(* The Manager driven by a caller *)

\* The sets of failing calls tried for one backend in a Manager sweep: none;
\* every handle enumeration; the first device's handle enumeration; the last
\* device's temperature together with the first device's power.
MgrFaultSets(n) ==
    LET Devs == 0..(n - 1) IN
    IF n = 0 THEN { {} }
    ELSE { {}, Devs \X {"Handle"}, { <<0, "Handle">> },
           { <<n - 1, "Temp">>, <<0, "Power">> } }

\* device_count of a retained backend (the placeholders have none)
DeviceCount(b) == IF b.vendor = "NVIDIA" THEN b.device_count ELSE 0

\* the inputs of one Manager sweep: one per retained backend
MgrWorlds(m) ==
    LET AnyFaults == UNION { MgrFaultSets(n) : n \in 0..MaxDevices } IN
    { ws \in [ 1..Len(m.gpu_monitors) -> [ faults : AnyFaults ] ] :
        \A k \in 1..Len(m.gpu_monitors) :
            ws[k].faults \in MgrFaultSets(DeviceCount(m.gpu_monitors[k])) }

\* a caller runs manager.initialize()
MgrInit ==
    /\ ~crashed
    /\ last.op = "idle"
    /\ Len(mgr.gpu_monitors) < MaxMonitors
    /\ \E env \in InitEnvs(platform) :
         LET r == MgrInitialize(mgr, platform, env) IN
         /\ mgr' = r.m
         /\ last' = Record("MgrInit", mgr, env, NoWorld, << >>, r, r.m)
    /\ UNCHANGED << confvars, platform, stub, nv, crashed, log >>

\* a caller runs manager.getAllGPUInfo(list)
MgrGetAll ==
    /\ ~crashed
    /\ last.op = "idle"
    /\ \E in \in CallerLists, ws \in MgrWorlds(mgr) :
         LET r == MgrGetAllGPUInfo(mgr, in, ws) IN
         /\ last' = Record("MgrGetAll", mgr, NoEnv, ws, in, r, mgr)
         /\ crashed' = r.fault
    /\ UNCHANGED << confvars, platform, stub, nv, mgr, log >>

\* a caller runs manager.cleanup()
MgrClean ==
    /\ ~crashed
    /\ last.op = "idle"
    /\ LET r == MgrCleanup(mgr) IN
         /\ mgr' = r.m
         /\ last' = Record("MgrClean", mgr, NoEnv, NoWorld, << >>, r, r.m)
    /\ UNCHANGED << confvars, platform, stub, nv, crashed, log >>

NextMgr ==
    \/ MgrInit \/ MgrGetAll \/ MgrClean
    \/ StubInit \/ StubGetOne \/ StubGetAll \/ StubClean
    \/ TakeResult

\* a caller driving the Manager
SpecMgr == Init /\ [][NextMgr]_vars

----------------------------------------------------------------------------
(* The Manager driven through consecutive sessions *)

\* device_count of each retained backend, in the order of the retained set
Counts(m) == [ k \in 1..Len(m.gpu_monitors) |-> DeviceCount(m.gpu_monitors[k]) ]

\* what the log keeps of a completed initialize() or cleanup(): the call,
\* what it returned and the device counts retained when it returned
Entry(op, ret, m) == [ op |-> op, ret |-> ret, counts |-> Counts(m) ]

\* a caller runs manager.initialize() and notes it in the log
SessInit ==
    /\ ~crashed
    /\ last.op = "idle"
    /\ Len(mgr.gpu_monitors) < MaxMonitors
    /\ Len(log) < MaxLog
    /\ \E env \in InitEnvs(platform) :
         LET r == MgrInitialize(mgr, platform, env) IN
         /\ mgr' = r.m
         /\ last' = Record("MgrInit", mgr, env, NoWorld, << >>, r, r.m)
         /\ log' = Append(log, Entry("initialize", r.ret, r.m))
    /\ UNCHANGED << confvars, platform, stub, nv, crashed >>

\* a caller runs manager.cleanup() and notes it in the log
SessClean ==
    /\ ~crashed
    /\ last.op = "idle"
    /\ Len(log) < MaxLog
    /\ LET r == MgrCleanup(mgr) IN
         /\ mgr' = r.m
         /\ last' = Record("MgrClean", mgr, NoEnv, NoWorld, << >>, r, r.m)
         /\ log' = Append(log, Entry("cleanup", FALSE, r.m))
    /\ UNCHANGED << confvars, platform, stub, nv, crashed >>

\* a caller runs manager.getAllGPUInfo(list) while every native call of the
\* sweeps succeeds; a query changes nothing of the Manager and is not logged
SessGetAll ==
    /\ ~crashed
    /\ last.op = "idle"
    /\ \E in \in CallerLists :
         LET ws == [ k \in 1..Len(mgr.gpu_monitors) |-> NoWorld ]
             r  == MgrGetAllGPUInfo(mgr, in, ws)
         IN /\ last' = Record("MgrGetAll", mgr, NoEnv, ws, in, r, mgr)
            /\ crashed' = r.fault
    /\ UNCHANGED << confvars, platform, stub, nv, mgr, log >>

NextSessions == SessInit \/ SessGetAll \/ SessClean \/ TakeResult

\* a caller driving the Manager through initialize(), queries and cleanup(),
\* with the log of the calls that change the Manager
SpecSessions == Init /\ [][NextSessions]_vars

----------------------------------------------------------------------------
(* Threads calling into the Configuration object *)

\* a thread enters config_byte_unit_set(type): unitChar and divisor are
\* computed in locals (lines 34-40) before divByte is touched
SetCall(t) ==
    /\ threads[t].todo = {}
    /\ \E type \in ByteTypes :
         /\ threads' = [threads EXCEPT ![t] =
                [ IdleThread EXCEPT !.op = "config_byte_unit_set",
                                    !.todo = Members,
                                    !.first = UnitPair(type)[1],
                                    !.second = UnitPair(type)[2] ]]
         /\ globalConfig' =
                [globalConfig EXCEPT !.written = @ \cup { UnitPair(type) }]
    /\ UNCHANGED << platform, nv, mgr, last, stub, crashed, log >>

\* a thread enters config_reset() (line 77)
ResetCall(t) ==
    /\ threads[t].todo = {}
    /\ threads' = [threads EXCEPT ![t] =
           [ IdleThread EXCEPT !.op = "config_reset", !.todo = Members,
                               !.first = 0, !.second = 1 ]]
    /\ globalConfig' = [globalConfig EXCEPT !.written = @ \cup { << 0, 1 >> }]
    /\ UNCHANGED << platform, nv, mgr, last, stub, crashed, log >>

\* a thread enters config_byte_unit_get() (line 50)
GetCall(t) ==
    /\ threads[t].todo = {}
    /\ threads' = [threads EXCEPT ![t] =
           [ IdleThread EXCEPT !.op = "config_byte_unit_get",
                               !.todo = Members ]]
    /\ UNCHANGED << globalConfig, platform, nv, mgr, last, stub, crashed, log >>

\* a thread enters config_byte_to_str(byte) (line 59)
ToStrCall(t) ==
    /\ threads[t].todo = {}
    /\ \E byte \in ByteCounts :
         threads' = [threads EXCEPT ![t] =
             [ IdleThread EXCEPT !.op = "config_byte_to_str",
                                 !.todo = Members, !.byte = byte ]]
    /\ UNCHANGED << globalConfig, platform, nv, mgr, last, stub, crashed, log >>

\* One store of the assignment to divByte (lines 42, 77).  The pair is
\* assigned member by member under no lock, so the stores of one call
\* interleave with the accesses of the other thread, in either order.
Store(t) ==
    /\ threads[t].op \in Writers
    /\ \E f \in threads[t].todo :
         /\ globalConfig' = [globalConfig EXCEPT ![f] = threads[t][f]]
         /\ threads' = [threads EXCEPT ![t] =
                Returned([threads[t] EXCEPT !.todo = @ \ {f}])]
    /\ UNCHANGED << platform, nv, mgr, last, stub, crashed, log >>

\* One load of the copy of divByte (lines 50, 59), likewise under no lock;
\* after the last load the call returns what it computes from its copy.
Load(t) ==
    /\ threads[t].op \in Readers
    /\ \E f \in threads[t].todo :
         threads' = [threads EXCEPT ![t] =
             Returned([threads[t] EXCEPT ![f] = globalConfig[f],
                                         !.todo = @ \ {f}])]
    /\ UNCHANGED << globalConfig, platform, nv, mgr, last, stub, crashed, log >>

NextConfig ==
    \E t \in Threads :
        \/ SetCall(t) \/ ResetCall(t) \/ GetCall(t) \/ ToStrCall(t)
        \/ Store(t) \/ Load(t)

\* two threads using the one Configuration object
SpecConfig == Init /\ [][NextConfig]_vars

----------------------------------------------------------------------------

(* Claims C1-C3: binding and release in NVIDIA_GPUMonitor::initialize *)

\* C1: an initialize() on an Uninitialized backend that returns false leaves
\* the backend holding no library handle and Uninitialized.
C1_FailedInitializeReleases ==
    (last.op = "NvInit" /\ ~last.pre.is_initialized /\ ~last.ret)
        => (last.post.nvml_lib = NULL /\ last.post.open_refs = 0
            /\ ~last.post.is_initialized)

\* C2: in every reachable state the eleven entry-point pointers are all
\* unbound or all bound.
C2_BindingAllOrNothing == nv.fn = {} \/ nv.fn = EntryPoints

\* C3: the library references a backend has opened and not released never
\* exceed one, and none is left after cleanup() returns.
C3_NoLeakAcrossInitialize ==
    /\ nv.open_refs <= 1
    /\ (last.op = "NvClean" => last.post.open_refs = 0)

----------------------------------------------------------------------------
(* Claims C4-C7: the sweep of NVIDIA_GPUMonitor::getAllGPUInfo *)

\* the fetches the claims call core: handle, name, memory, utilization,
\* temperature
CoreFetches == { "Handle", "Name", "Memory", "Util", "Temp" }

\* a getAllGPUInfo call on a backend whose flag is Ready has returned
SweepReturned ==
    last.op = "NvGetAll" /\ last.pre.is_initialized /\ ~last.fault

\* the records the last query appended to the caller's list
Appended == SubSeq(last.out, Len(last.in) + 1, Len(last.out))

\* the device a record is about
IndexOf(rec) == rec.name[2]

\* the indices of the last sweep all of whose core fetches succeed
CoreOk ==
    { i \in 0..(last.pre.device_count - 1) :
        \A c \in CoreFetches : << i, c >> \notin last.w.faults }

\* C4: the sweep appends exactly one record for each index whose core
\* queries succeed, in strictly ascending index order, and keeps what the
\* list held.
C4_SweepSkipsOnlyFailedIndices ==
    SweepReturned =>
        /\ SubSeq(last.out, 1, Len(last.in)) = last.in
        /\ Len(Appended) = Cardinality(CoreOk)
        /\ { IndexOf(Appended[j]) : j \in 1..Len(Appended) } = CoreOk
        /\ \A j, k \in 1..Len(Appended) :
               j < k => IndexOf(Appended[j]) < IndexOf(Appended[k])

\* three devices, the handle enumeration of index 1 fails: two records, for
\* indices 0 and 2 in that order
C4_Witness ==
    /\ SweepReturned
    /\ last.pre.device_count = 3
    /\ last.w.faults = { << 1, "Handle" >> }
    /\ Len(Appended) = 2
    /\ IndexOf(Appended[1]) = 0
    /\ IndexOf(Appended[2]) = 2

\* C5: a record for index i is emitted if and only if the handle, name,
\* memory, utilization and temperature fetches of i all succeed, whatever
\* the driver-version, power and clock fetches do.
C5_EmittedIffCoreSucceeds ==
    SweepReturned =>
        \A i \in 0..(last.pre.device_count - 1) :
            (\E j \in 1..Len(Appended) : IndexOf(Appended[j]) = i)
                <=> (\A c \in { "Handle", "Name", "Memory", "Util", "Temp" } :
                         << i, c >> \notin last.w.faults)

\* a record is emitted for a device all four of whose best-effort fetches fail
C5_Witness ==
    /\ SweepReturned
    /\ \E i \in 0..(last.pre.device_count - 1) :
         /\ \A s \in { "Driver", "Power", "ClockCore", "ClockMem" } :
                << i, s >> \in last.w.faults
         /\ \E j \in 1..Len(Appended) : IndexOf(Appended[j]) = i

\* the value a float field holds equals the integer n
IsWhole(x, n) == x[1] = n * x[2]

\* C6: in every emitted record each best-effort field holds its default if
\* its own fetch failed and its fetched value otherwise, and the core fields
\* hold their fetched values.
C6_BestEffortFieldsIndependent ==
    SweepReturned =>
        \A j \in 1..Len(Appended) :
            LET rec == Appended[j]
                i   == IndexOf(rec)
                r   == ReadingOf(i)
                failed(s) == << i, s >> \in last.w.faults
            IN
            /\ rec.driver_version =
                   IF failed("Driver") THEN "Unknown" ELSE r.driver
            /\ IF failed("Power") THEN IsWhole(rec.power_usage, 0)
               ELSE rec.power_usage = MilliwattsToWatts(r.power)
            /\ IsWhole(rec.clock_core,
                       IF failed("ClockCore") THEN 0 ELSE r.clock_core)
            /\ IsWhole(rec.clock_memory,
                       IF failed("ClockMem") THEN 0 ELSE r.clock_memory)
            /\ rec.name = NativeName(i)
            /\ rec.vendor = "NVIDIA"
            /\ rec.memory_total = BytesToMB(r.total)
            /\ rec.memory_used = BytesToMB(r.used)
            /\ rec.memory_free = BytesToMB(r.free)
            /\ IsWhole(rec.utilization, r.gpu)
            /\ IsWhole(rec.temperature, r.temp)

\* the power fetch alone fails: power_usage is 0.0, the driver version and
\* both clocks are the fetched ones
C6_Witness ==
    /\ SweepReturned
    /\ \E j \in 1..Len(Appended) :
         LET rec == Appended[j]
             i   == IndexOf(rec)
         IN /\ { s \in DefaultingSteps : << i, s >> \in last.w.faults }
                   = { "Power" }
            /\ IsWhole(rec.power_usage, 0)
            /\ rec.driver_version = ReadingOf(i).driver
            /\ IsWhole(rec.clock_core, ReadingOf(i).clock_core)
            /\ IsWhole(rec.clock_memory, ReadingOf(i).clock_memory)

\* C7: getAllGPUInfo on a Ready backend returns true if and only if this call
\* appended at least one record, whatever the caller's list held.
C7_TrueIffAppended ==
    SweepReturned => (last.ret <=> Len(last.out) > Len(last.in))

----------------------------------------------------------------------------
(* Claims C8-C10: GPUMonitorManager::initialize and ::getAllGPUInfo *)

\* initialize() of a new NVIDIA backend returns true under the input env
NvSucceeds(plat, env) ==
    /\ \E c \in env.loadable : c = 1 \/ (c = 2 /\ plat = "win32")
    /\ env.resolved = EntryPoints
    /\ env.initRc = 0
    /\ env.countRc = 0

\* the backends the last Manager.initialize() added to the retained set
Added ==
    SubSeq(last.post.gpu_monitors, Len(last.pre.gpu_monitors) + 1,
           Len(last.post.gpu_monitors))

\* C8: Manager.initialize() initializes one backend of each vendor, retains
\* exactly those whose initialize() returned true, and returns true if and
\* only if a backend is retained when it returns.
C8_ManagerInitializeRetainsSuccessful ==
    last.op = "MgrInit" =>
        /\ [ k \in 1..Len(last.made) |-> last.made[k].vendor ]
               = << "NVIDIA", "AMD", "Intel" >>
        /\ SubSeq(last.post.gpu_monitors, 1, Len(last.pre.gpu_monitors))
               = last.pre.gpu_monitors
        /\ IF NvSucceeds(platform, last.env)
           THEN /\ Len(Added) = 1
                /\ Added[1].vendor = "NVIDIA"
                /\ Added[1].is_initialized
                /\ Added[1].device_count = last.env.count
           ELSE Added = << >>
        /\ last.ret <=> (last.post.gpu_monitors # << >>)
        /\ last.post.is_initialized = last.ret

\* a backend that reports no device is retained and initialize() returns true
C8_Witness ==
    /\ last.op = "MgrInit"
    /\ last.pre.gpu_monitors = << >>
    /\ NvSucceeds(platform, last.env)
    /\ last.env.count = 0
    /\ Len(last.post.gpu_monitors) = 1
    /\ last.ret

\* the native calls named f that the last operation made
CallsOf(f) == { k \in 1..Len(last.calls) : last.calls[k].f = f }

\* C9: a backend whose initialize() returned false is not retained and holds
\* no library reference when Manager.initialize() returns; after a
\* Manager.initialize() that returns false no reference opened by the Manager
\* is open.
C9_FailedBackendsReleased ==
    last.op = "MgrInit" =>
        /\ \A k \in 1..Len(last.made) :
               ~last.made[k].ret =>
                   /\ ~last.made[k].retained
                   /\ OpenRefs(last.made[k].b) = 0
                   /\ (last.made[k].vendor = "NVIDIA"
                          => last.made[k].b.nvml_lib = NULL)
        /\ Len(Added) = Cardinality({ k \in 1..Len(last.made) :
                                        last.made[k].ret })
        /\ last.post.leaked = 0
        /\ ~last.ret =>
               /\ last.post.gpu_monitors = << >>
               /\ \A k \in 1..Len(last.made) : OpenRefs(last.made[k].b) = 0

\* the library loaded, nvmlInit failed, and the library was unloaded before
\* Manager.initialize() returned false
C9_Witness ==
    /\ last.op = "MgrInit"
    /\ ~last.ret
    /\ last.env.initRc # 0
    /\ Cardinality(CallsOf("load")) = 1
    /\ Cardinality(CallsOf("nvmlInit")) = 1
    /\ Cardinality(CallsOf("unload")) = 1
    /\ last.post.leaked = 0

\* C10: Manager.getAllGPUInfo returns true if and only if the backends
\* returned at least one record in this call, whatever the caller's list
\* held.
C10_ManagerTrueIffBackendsProduced ==
    last.op = "MgrGetAll" =>
        (last.ret <=> \E k \in 1..Len(last.parts) :
                          last.parts[k].ret /\ last.parts[k].list # << >>)

----------------------------------------------------------------------------
(* Claim C11: the order of the Manager's result *)

\* rank of a vendor in the order Manager.initialize() makes the backends
VendorRank(v) ==
    CASE v = "NVIDIA" -> 1 [] v = "AMD" -> 2 [] v = "Intel" -> 3

\* the lists of the backends that returned true, concatenated from backend
\* k on in the order of the retained set
RECURSIVE PartsFrom(_)
PartsFrom(k) ==
    IF k > Len(last.parts) THEN << >>
    ELSE (IF last.parts[k].ret THEN last.parts[k].list ELSE << >>)
             \o PartsFrom(k + 1)

\* C11: what Manager.getAllGPUInfo appends is the backends' records in the
\* order the backends were retained, which follows the vendor order NVIDIA,
\* AMD, Intel, and within one backend in ascending device index; what the
\* list held stays in front.
C11_OrderedByBackendThenDevice ==
    (last.op = "MgrGetAll" /\ last.pre.is_initialized) =>
        /\ last.out = last.in \o PartsFrom(1)
        /\ Len(last.parts) = Len(last.pre.gpu_monitors)
        /\ \A k \in 1..Len(last.parts) :
               \A i, j \in 1..Len(last.parts[k].list) :
                   i < j => IndexOf(last.parts[k].list[i])
                                < IndexOf(last.parts[k].list[j])
        /\ \A j, k \in 1..Len(last.pre.gpu_monitors) :
               j < k => VendorRank(last.pre.gpu_monitors[j].vendor)
                            <= VendorRank(last.pre.gpu_monitors[k].vendor)

\* two retained backends, the first with two devices, both produce records:
\* the first backend's two records come first, then the second backend's
C11_Witness ==
    /\ last.op = "MgrGetAll"
    /\ Len(last.parts) = 2
    /\ Len(last.parts[1].list) = 2
    /\ Len(last.parts[2].list) = 3
    /\ last.in = << >>
    /\ [ k \in 1..Len(last.out) |-> IndexOf(last.out[k]) ]
           = << 0, 1, 0, 1, 2 >>

----------------------------------------------------------------------------
(* Claim C12: Manager.cleanup() *)

\* the log entry of the call before the one `last` holds
Previous == log[Len(log) - 1]

\* C12: Manager.cleanup() returns in every Manager state with the retained
\* set empty and the Manager not initialized, having shut the vendor library
\* down once and released the library once for each backend it retained; a
\* cleanup() that follows a cleanup() changes nothing and makes no native
\* call.
C12_ManagerCleanupIdempotent ==
    last.op = "MgrClean" =>
        /\ ~last.fault
        /\ last.post.gpu_monitors = << >>
        /\ ~last.post.is_initialized
        /\ Cardinality(CallsOf("nvmlShutdown")) = Len(last.pre.gpu_monitors)
        /\ Cardinality(CallsOf("unload")) = Len(last.pre.gpu_monitors)
        /\ last.post.leaked = last.pre.leaked
        /\ \A k \in 1..Len(last.calls) :
               last.calls[k].f \in { "nvmlShutdown", "unload" }
        /\ (Len(log) >= 2 /\ Previous.op = "cleanup") =>
               /\ last.post = last.pre
               /\ last.calls = << >>

\* initialize() retained a backend, cleanup() released it, and a second
\* cleanup() right after made no native call
C12_Witness ==
    /\ last.op = "MgrClean"
    /\ Len(log) = 3
    /\ log[1].op = "initialize" /\ log[1].ret
    /\ log[2].op = "cleanup"
    /\ log[3].op = "cleanup"
    /\ last.calls = << >>
    /\ last.post = last.pre

----------------------------------------------------------------------------
(* Claim C13: cleanup() of a backend that is not Ready *)

\* C13: cleanup() on a backend whose initialize() never succeeded returns
\* without calling any vendor entry point, releases the library handle if
\* and only if the backend holds one, and leaves the backend Uninitialized
\* with no library handle and device_count 0; cleanup() of a placeholder
\* backend makes no native call and leaves it Uninitialized.
C13_CleanupOfUninitializedBackend ==
    /\ (last.op = "NvClean" /\ ~last.pre.is_initialized) =>
           /\ ~last.fault
           /\ \A k \in 1..Len(last.calls) : last.calls[k].f \notin EntryPoints
           /\ Cardinality(CallsOf("unload"))
                  = IF last.pre.nvml_lib # NULL THEN 1 ELSE 0
           /\ ~last.post.is_initialized
           /\ last.post.nvml_lib = NULL
           /\ last.post.device_count = 0
    /\ last.op = "StubClean" =>
           /\ ~last.fault
           /\ last.calls = << >>
           /\ ~last.post.is_initialized

\* initialize() bound all eleven entry points and then failed; the cleanup()
\* that follows releases the library and does not call nvmlShutdown
C13_Witness ==
    /\ last.op = "NvClean"
    /\ ~last.pre.is_initialized
    /\ last.pre.fn = EntryPoints
    /\ last.pre.nvml_lib # NULL
    /\ CallsOf("nvmlShutdown") = {}
    /\ Cardinality(CallsOf("unload")) = 1
    /\ last.post.nvml_lib = NULL

----------------------------------------------------------------------------
(* Claims C14-C16: sessions of the Manager *)

\* the log entry of the call `last` holds, or of the call before a query
Latest == log[Len(log)]

\* C14: on a Manager that retains no backend, an initialize() in which no
\* backend initializes returns false and retains nothing; a getAllGPUInfo
\* after an initialize() that returned false returns false, makes no call
\* to any backend and leaves the caller's list as it was.
C14_NoBackendAvailable ==
    /\ (last.op = "MgrInit" /\ last.pre.gpu_monitors = << >>
          /\ ~NvSucceeds(platform, last.env)) =>
           /\ ~last.ret
           /\ last.post.gpu_monitors = << >>
           /\ ~last.post.is_initialized
    /\ (last.op = "MgrGetAll" /\ Len(log) >= 1
          /\ Latest.op = "initialize" /\ ~Latest.ret) =>
           /\ ~last.ret
           /\ ~last.fault
           /\ last.out = last.in
           /\ last.parts = << >>
           /\ last.calls = << >>

\* the first initialize() of a Manager returned false and the query that
\* followed returned false with an empty list
C14_Witness ==
    /\ last.op = "MgrGetAll"
    /\ Len(log) = 1
    /\ Latest.op = "initialize"
    /\ ~Latest.ret
    /\ last.in = << >>
    /\ last.out = << >>
    /\ ~last.ret

\* a query into an empty list, every native call of which succeeds, made
\* after an initialize() that returned true with exactly one backend
\* retained
OneBackendQueried ==
    /\ last.op = "MgrGetAll"
    /\ Len(log) >= 1
    /\ Latest.op = "initialize"
    /\ Latest.ret
    /\ Len(Latest.counts) = 1
    /\ last.in = << >>
    /\ \A k \in 1..Len(last.w) : last.w[k].faults = {}

\* initialize() of a Manager that retains nothing, with a working NVIDIA
\* backend, returns true and retains that backend alone
OneBackendInitialized ==
    (last.op = "MgrInit" /\ last.pre.gpu_monitors = << >>
       /\ NvSucceeds(platform, last.env)) =>
        /\ last.ret
        /\ Counts(last.post) = << last.env.count >>

\* C15 as stated: with one working backend reporting device_count = n and
\* every query succeeding, initialize() returns true and getAllGPUInfo into
\* an empty list returns true with exactly n records, for every n.
C15_AsStated ==
    /\ OneBackendInitialized
    /\ OneBackendQueried =>
           /\ last.ret
           /\ Len(last.out) = Latest.counts[1]

\* C15 amended: with one working backend reporting device_count = n and
\* every query succeeding, initialize() returns true and getAllGPUInfo into
\* an empty list yields exactly n records, one for each index 0..n-1, and
\* returns true when n >= 1 and false when n = 0.
C15_OneBackendNRecords ==
    /\ OneBackendInitialized
    /\ OneBackendQueried =>
           /\ Len(last.out) = Latest.counts[1]
           /\ \A j \in 1..Len(last.out) : IndexOf(last.out[j]) = j - 1
           /\ last.ret <=> Latest.counts[1] >= 1

\* one backend with two devices: initialize() returned true and the query
\* returned true with exactly two records
C15_Witness ==
    /\ OneBackendQueried
    /\ Len(log) = 1
    /\ Latest.counts = << 2 >>
    /\ last.ret
    /\ Len(last.out) = 2

\* the sum of the device counts in a sequence
RECURSIVE Sum(_)
Sum(q) == IF q = << >> THEN 0 ELSE Head(q) + Sum(Tail(q))

\* C16: an initialize() that follows a cleanup() leaves the Manager as the
\* same initialize() leaves a newly constructed Manager: the only backends
\* retained are the ones it made, each with the library handle, the entry
\* points and the device_count it obtained in this call; the next
\* getAllGPUInfo yields one record for each device counted in this call.
C16_ReinitializeIsIndependent ==
    /\ (last.op = "MgrInit" /\ Len(log) >= 2 /\ Previous.op = "cleanup") =>
           /\ last.post = MgrInitialize(NewManager, platform, last.env).m
           /\ Len(last.post.gpu_monitors) <= 1
           /\ \A k \in 1..Len(last.post.gpu_monitors) :
                  LET b == last.post.gpu_monitors[k] IN
                  /\ b.nvml_lib = LoadLibrary(platform, last.env.loadable)
                  /\ b.fn_lib = b.nvml_lib
                  /\ b.fn = last.env.resolved
                  /\ b.device_count = last.env.count
                  /\ b.open_refs = 1
                  /\ b.nvml_sessions = 1
    /\ (last.op = "MgrGetAll" /\ Len(log) >= 2
          /\ Latest.op = "initialize" /\ Previous.op = "cleanup") =>
           /\ Len(Appended) = Sum(Latest.counts)
           /\ \A j \in 1..Len(Appended) : IndexOf(Appended[j]) = j - 1
           /\ last.in = << >> => (last.ret <=> Sum(Latest.counts) >= 1)

\* a session with two devices, cleanup(), a session with one device: the
\* query of the second session yields one record
C16_Witness ==
    /\ last.op = "MgrGetAll"
    /\ Len(log) = 3
    /\ log[1].op = "initialize" /\ log[1].counts = << 2 >>
    /\ log[2].op = "cleanup"
    /\ log[3].op = "initialize" /\ log[3].counts = << 1 >>
    /\ last.in = << >>
    /\ Len(last.out) = 1
    /\ last.ret

----------------------------------------------------------------------------
(* Claim C17: the lifecycle of a backend *)

\* C17: the lifecycle flag of a backend goes from Uninitialized to Ready
\* only in an initialize() that returns true and from Ready to
\* Uninitialized only in cleanup(); an initialize() that returns true leaves
\* it Ready, cleanup() leaves it Uninitialized, a failed initialize() on an
\* Uninitialized backend leaves it Uninitialized; getGPUInfo and
\* getAllGPUInfo change neither the flag nor device_count, the library
\* handle or the entry-point table.
C17_LifecycleStateMachine ==
    [][ /\ (~nv.is_initialized /\ nv'.is_initialized)
               => (last'.op = "NvInit" /\ last'.ret)
        /\ (nv.is_initialized /\ ~nv'.is_initialized)
               => last'.op = "NvClean"
        /\ (last'.op = "NvInit" /\ last'.ret) => nv'.is_initialized
        /\ last'.op = "NvClean" => ~nv'.is_initialized
        /\ (last'.op = "NvInit" /\ ~last'.ret /\ ~nv.is_initialized)
               => ~nv'.is_initialized
        /\ last'.op \in { "NvGetOne", "NvGetAll" } =>
               /\ nv'.is_initialized = nv.is_initialized
               /\ nv'.device_count = nv.device_count
               /\ nv'.nvml_lib = nv.nvml_lib
               /\ nv'.fn = nv.fn
               /\ last'.post = last'.pre
      ]_vars

\* a Ready backend with two devices has been taken back to Uninitialized by
\* cleanup()
C17_Witness ==
    /\ last.op = "NvClean"
    /\ last.pre.is_initialized
    /\ last.pre.device_count = 2
    /\ ~nv.is_initialized
    /\ nv.nvml_lib = NULL
    /\ nv.device_count = 0

----------------------------------------------------------------------------
(* Claim C18: the AMD and Intel backends *)

\* C18: initialize() of an AMD or Intel backend returns false in every
\* state and leaves it Uninitialized, the Manager never retains one, and
\* their getGPUInfo and getAllGPUInfo return false, make no native call and
\* leave the caller's object or list as it was.
C18_PlaceholdersNeverAvailable ==
    /\ \A v \in PlaceholderVendors : ~stub[v].is_initialized
    /\ last.op = "StubInit" =>
           (~last.ret /\ last.calls = << >> /\ ~last.post.is_initialized)
    /\ last.op \in { "StubGetOne", "StubGetAll" } =>
           (~last.ret /\ last.calls = << >> /\ last.out = last.in)
    /\ \A k \in 1..Len(mgr.gpu_monitors) :
           mgr.gpu_monitors[k].vendor \notin PlaceholderVendors
    /\ last.op = "MgrInit" =>
           \A k \in 1..Len(last.made) :
               last.made[k].vendor \in PlaceholderVendors =>
                   (~last.made[k].ret /\ ~last.made[k].retained)

\* while the Manager retains one backend, an NVIDIA one, the Intel backend's
\* getAllGPUInfo returns false and leaves a pre-filled list as it was
C18_Witness ==
    /\ last.op = "StubGetAll"
    /\ last.pre.vendor = "Intel"
    /\ last.in = << PriorRecord >>
    /\ last.out = last.in
    /\ ~last.ret
    /\ Len(mgr.gpu_monitors) = 1
    /\ mgr.gpu_monitors[1].vendor = "NVIDIA"

----------------------------------------------------------------------------
(* Claims C19-C20: unit conversions *)

\* The field value v equals floor(b / 1,048,576) for the byte count
\* b = u.hi * 2^30 + u.lo.  The quotient is u.hi * 1024 + u.lo / 2^20; a
\* field value is below 2^32 and the quotient is below 2^32 only if
\* u.hi < 2^22.
IsFloorMB(v, u) ==
    /\ u.hi < U32WrapHi
    /\ v = u.hi * (U64Base \div BytesPerMB) + u.lo \div BytesPerMB

\* C19: in every emitted record memory_total, memory_used and memory_free
\* equal floor(b / 1,048,576) of the byte counts the memory-info entry
\* point reported, for every 64-bit byte count.
C19_MemoryIsFloorOfMegabytes ==
    SweepReturned =>
        \A j \in 1..Len(Appended) :
            LET rec == Appended[j]
                r   == ReadingOf(IndexOf(rec))
            IN /\ IsFloorMB(rec.memory_total, r.total)
               /\ IsFloorMB(rec.memory_used, r.used)
               /\ IsFloorMB(rec.memory_free, r.free)

\* C20: when the power fetch succeeds with p milliwatts, power_usage is
\* p / 1000 watts: the single-precision value nearest to p / 1000, and the
\* exact whole number of watts when p is a multiple of 1000.
C20_PowerIsMilliwattsOverThousand ==
    SweepReturned =>
        \A j \in 1..Len(Appended) :
            LET rec == Appended[j]
                i   == IndexOf(rec)
                p   == ReadingOf(i).power
            IN << i, "Power" >> \notin last.w.faults =>
                   /\ rec.power_usage = FloatQuotient(p, 1000)
                   /\ p % 1000 = 0 => IsWhole(rec.power_usage, p \div 1000)

----------------------------------------------------------------------------
(* Claim C21: the candidate libraries of NVIDIA_GPUMonitor::initialize *)

\* the loader calls of the last operation, in the order they were made
LoadsMade == SelectSeq(last.calls, LAMBDA c : c.f = "load")

\* C21: initialize() tries the default library name first and the absolute
\* fallback path second, the second exactly when the first does not load;
\* the handle it keeps is that of the first candidate that loads, and it
\* fails at the load step exactly when neither of the two loads.
C21_TwoCandidatesInOrder ==
    last.op = "NvInit" =>
        /\ LoadsMade = IF 1 \in last.env.loadable
                       THEN << Call("load", 1) >>
                       ELSE << Call("load", 1), Call("load", 2) >>
        /\ last.post.nvml_lib =
               IF 1 \in last.env.loadable THEN 1
               ELSE IF 2 \in last.env.loadable THEN 2
               ELSE NULL
        /\ (last.env.loadable = {} => ~last.ret)

----------------------------------------------------------------------------
(* Claim C22: a failing backend in GPUMonitorManager::getAllGPUInfo *)

\* the records retained backend k emits for the input of the last query:
\* those of the indices whose core fetches all succeed, in index order
RECURSIVE EmittedBy(_, _, _)
EmittedBy(k, i, acc) ==
    LET b == last.pre.gpu_monitors[k] IN
    IF i >= DeviceCount(b) THEN acc
    ELSE LET d == QueryDevice(b, i, last.w[k]) IN
         EmittedBy(k, i + 1,
                   IF d.status = "emit" THEN Append(acc, d.rec) ELSE acc)

\* what the retained backends from k on emit, in the order of the set
RECURSIVE EmittedFrom(_)
EmittedFrom(k) ==
    IF k > Len(last.pre.gpu_monitors) THEN << >>
    ELSE EmittedBy(k, 0, << >>) \o EmittedFrom(k + 1)

\* C22: in a Manager query every retained backend is asked, whatever the
\* backends before it returned; a backend that returned false contributes
\* nothing, and the result is the caller's list followed by all the records
\* of the other backends.
C22_FailureStaysInItsBackend ==
    (last.op = "MgrGetAll" /\ last.pre.is_initialized) =>
        /\ Len(last.parts) = Len(last.pre.gpu_monitors)
        /\ \A k \in 1..Len(last.parts) :
               /\ ~last.parts[k].ret => last.parts[k].list = << >>
               /\ last.parts[k].list = EmittedBy(k, 0, << >>)
        /\ last.out = last.in \o EmittedFrom(1)

\* a query of two retained backends in which the first returned false and
\* the second's two records are in the result
C22_Witness ==
    /\ last.op = "MgrGetAll"
    /\ Len(last.pre.gpu_monitors) = 2
    /\ ~last.parts[1].ret
    /\ last.pre.gpu_monitors[1].device_count = 2
    /\ last.parts[2].ret
    /\ Len(last.parts[2].list) = 2
    /\ last.out = last.in \o last.parts[2].list

----------------------------------------------------------------------------
(* Claim C23: concurrent use of Configuration *)

\* C23: the pair a completed config_byte_unit_get or config_byte_to_str
\* worked from is one that an assignment to divByte was made with as a
\* whole (or the constructor's pair), never the unit character of one
\* assignment together with the divisor of another.
C23_ReadersSeeWholePairs ==
    \A t \in Threads :
        (threads[t].op \in Readers /\ threads[t].todo = {}) =>
            << threads[t].first, threads[t].second >> \in globalConfig.written

----------------------------------------------------------------------------
(* Claim C24: one retained backend per vendor *)

\* C24: the retained set never holds two backends of one vendor, and one
\* Manager query never adds two records of the same vendor and device index.
C24_OneBackendPerVendor ==
    /\ \A j, k \in 1..Len(mgr.gpu_monitors) :
           j # k => mgr.gpu_monitors[j].vendor # mgr.gpu_monitors[k].vendor
    /\ (last.op = "MgrGetAll" /\ ~last.fault) =>
           \A p, q \in 1..Len(Appended) :
               p # q =>
                   \/ Appended[p].vendor # Appended[q].vendor
                   \/ IndexOf(Appended[p]) # IndexOf(Appended[q])

----------------------------------------------------------------------------
(* Claims C25-C27: the bound library and the vendor session *)

\* C25: a backend whose lifecycle flag says Ready holds a library handle, and
\* all eleven entry points are bound to the library that handle stands for.
C25_ReadyImpliesBound ==
    nv.is_initialized =>
        /\ nv.nvml_lib # NULL
        /\ nv.fn = EntryPoints
        /\ nv.fn_lib = nv.nvml_lib

\* the backend the last query ran on answers without asking the library:
\* its flag says Uninitialized, or it counted no device
NotQueryable == ~last.pre.is_initialized \/ last.pre.device_count = 0

\* C26: getGPUInfo and getAllGPUInfo on a NVIDIA backend that is
\* Uninitialized (new, after a failed initialize(), after cleanup()) or that
\* counted no device return false, call no native entry point and leave the
\* caller's record or list as it was.
C26_NoCallUnlessReady ==
    (last.op \in { "NvGetOne", "NvGetAll" } /\ NotQueryable) =>
        /\ ~last.ret
        /\ last.calls = << >>
        /\ last.out = last.in
        /\ ~last.fault

\* getGPUInfo into an earlier record, on a backend whose initialize() bound all
\* eleven entry points and then failed
C26_Witness ==
    /\ last.op = "NvGetOne"
    /\ ~last.pre.is_initialized
    /\ last.pre.nvml_lib # NULL
    /\ last.pre.fn = EntryPoints
    /\ last.in = << PriorRecord >>
    /\ last.out = << PriorRecord >>
    /\ ~last.ret

\* C27: nvmlShutdown is called only for a vendor session that a successful
\* nvmlInit opened, once for each: inside initialize() when the device count
\* cannot be read, otherwise in cleanup(), there before the library is
\* released; a released library leaves no session open behind it.
C27_InitShutdownPaired ==
    /\ nv.nvml_sessions \in { 0, 1 }
    /\ last.op = "NvInit" =>
           /\ CallsOf("nvmlShutdown") # {} <=>
                  /\ CallsOf("nvmlDeviceGetCount") # {}
                  /\ last.env.countRc # NVML_SUCCESS
           /\ Cardinality(CallsOf("nvmlShutdown")) <= 1
    /\ last.op = "NvClean" =>
           /\ Cardinality(CallsOf("nvmlShutdown")) =
                  last.pre.nvml_sessions
           /\ \A s \in CallsOf("nvmlShutdown"),
                 u \in CallsOf("unload") : s < u
           /\ last.post.nvml_sessions = 0

----------------------------------------------------------------------------
(* Claim C28: the sweep is bounded and one-shot *)

\* the device indices of the handle look-ups of the last operation, in the
\* order the calls were made
HandleIndices ==
    LET h == SelectSeq(last.calls,
                       LAMBDA c : c.f = "nvmlDeviceGetHandleByIndex")
    IN [ k \in 1..Len(h) |-> h[k].arg ]

\* C28: one getAllGPUInfo makes no call twice (an entry point is called at
\* most once for a device index, the clock entry point once for each clock
\* domain), so no failed call is tried again; it calls neither nvmlInit nor
\* nvmlDeviceGetCount; its calls go through the indices in ascending order;
\* and a sweep that returns has looked up each index below the device_count
\* cached by initialize() exactly once, from 0 upwards.
C28_SweepIsOneShot ==
    last.op = "NvGetAll" =>
        /\ \A p, q \in 1..Len(last.calls) :
               /\ p # q => last.calls[p] # last.calls[q]
               /\ p < q => last.calls[p].arg <= last.calls[q].arg
        /\ \A p \in 1..Len(last.calls) :
               last.calls[p].f \notin { "nvmlInit", "nvmlDeviceGetCount",
                                        "nvmlShutdown", "load", "unload" }
        /\ Len(last.calls) <= Len(Steps) * last.pre.device_count
        /\ ~last.fault =>
               HandleIndices =
                   IF last.pre.is_initialized
                   THEN [ k \in 1..last.pre.device_count |-> k - 1 ]
                   ELSE << >>

\* a sweep over three devices in which the temperature fetch of index 1 fails:
\* index 1 is left after six calls and index 2 is still queried in full
C28_Witness ==
    /\ last.op = "NvGetAll"
    /\ last.pre.device_count = 3
    /\ last.w.faults = { << 1, "Temp" >> }
    /\ ~last.fault
    /\ HandleIndices = << 0, 1, 2 >>
    /\ Len(last.calls) = 2 * Len(Steps) + 6

----------------------------------------------------------------------------
(* Claim C29: getGPUInfo against the sweep *)

\* what getAllGPUInfo, given an empty list, returns on the backend of the
\* last operation when the native calls answer as they did in it
SameSweep == NvGetAllGPUInfo(last.pre, << >>, last.w)

\* the records of that sweep that are about device index 0
SweepForZero ==
    SelectSeq(SameSweep.list, LAMBDA rec : IndexOf(rec) = 0)

\* C29: on a Ready backend getGPUInfo returns true exactly when the sweep,
\* with the same answers of the native calls, emits a record for index 0;
\* the record it has filled then equals that record in every field, whatever
\* the caller's record held before; and every call it makes is for index 0.
C29_SingleQueryAgreesWithSweep ==
    (last.op = "NvGetOne" /\ last.pre.is_initialized /\ ~last.fault) =>
        /\ last.ret <=> SweepForZero # << >>
        /\ last.ret => last.out = SweepForZero
        /\ \A p \in 1..Len(last.calls) : last.calls[p].arg = 0

\* getGPUInfo into an earlier record on a backend with three devices, the
\* power and driver fetches of index 0 failing: it returns true with the
\* defaults in place of the earlier values
C29_Witness ==
    /\ last.op = "NvGetOne"
    /\ last.pre.is_initialized
    /\ last.pre.device_count = 3
    /\ last.in = << PriorRecord >>
    /\ last.w.faults = { << 0, "Driver" >>, << 0, "Power" >> }
    /\ last.ret
    /\ last.out[1].driver_version = "Unknown"
    /\ last.out[1].power_usage = FloatZero
    /\ last.out = SweepForZero

----------------------------------------------------------------------------
(* Claim C30: the Manager's flag and its retained set *)

\* C30: the Manager's is_initialized is true exactly when it retains at least
\* one backend, and every backend it retains is Ready.
C30_FlagIffRetainedAndReady ==
    /\ mgr.is_initialized <=> mgr.gpu_monitors # << >>
    /\ \A k \in 1..Len(mgr.gpu_monitors) : mgr.gpu_monitors[k].is_initialized

\* a second initialize() in which no backend became available, on a Manager
\* that retained one from the first: the flag stays true with the set
C30_Witness ==
    /\ last.op = "MgrInit"
    /\ Len(last.pre.gpu_monitors) = 1
    /\ \A k \in 1..Len(last.made) : ~last.made[k].retained
    /\ Len(mgr.gpu_monitors) = 1
    /\ mgr.gpu_monitors[1].is_initialized
    /\ mgr.is_initialized

============================================================================
